---- MODULE Spec2Model ----
(***************************************************************************)
(* Model of backend/main.py, the URL shortener ("The Scaler").             *)
(*                                                                         *)
(* State: the two tables (urls, analytics), the autoincrement counter of   *)
(* urls.id, the Redis cache, and one slot per HTTP request holding the     *)
(* handler's local variables, its position, its response, and the          *)
(* background task the handler scheduled.  Handlers run in a thread pool,  *)
(* so their steps interleave at every access to the store or the cache.    *)
(***************************************************************************)
EXTENDS Integers, Sequences, FiniteSets, TLC

(* ------------------------------ bounds ------------------------------- *)
MaxReqs == 3        \* requests made in a run
MaxFaults == 1      \* store, cache or task failures injected in a run
MaxFaultReqs == 2   \* requests made in a run that injects a failure
MaxReadReqs == 2    \* requests made in a run that calls a dashboard endpoint
MaxEncode == 12000   \* largest number given to the encoder harness
MaxRows == 55       \* largest table given to the listing harness

(* ------------------------- program constants ------------------------- *)
OFFSET == 10000
LIMIT == 50

\* string.digits + string.ascii_letters: digits, lowercase, uppercase
BASE62 ==
  << "0","1","2","3","4","5","6","7","8","9",
     "a","b","c","d","e","f","g","h","i","j","k","l","m",
     "n","o","p","q","r","s","t","u","v","w","x","y","z",
     "A","B","C","D","E","F","G","H","I","J","K","L","M",
     "N","O","P","Q","R","S","T","U","V","W","X","Y","Z" >>

(* ------------------------------ inputs ------------------------------- *)
\* request bodies of POST /shorten: URLCreate.url is any str, "" included
URLs == {"", "https://example.com/a"}

\* the CF-IPCountry header of GET /{short_code}: absent, or a country code
\* (an input of the request, drawn where the handler reads it)
NoHeader == "<no header>"
Headers == {NoHeader, "US"}

\* a column that is NULL / a Python None
NoCode == << >>
NoUrl == "<none>"
NoRow == 0
NoSnap == -1

Reqs == 1..MaxReqs

VARIABLES
  urls,       \* table urls: sequence of rows [id, original_url, short_code, clicks]
  seq_id,     \* last value handed out by the autoincrement of urls.id
  analytics,  \* table analytics: sequence of rows [short_code, country]
  cache,      \* Redis: the value under each key, NoUrl for a key that is absent
  reqs,       \* per request: the handler's locals, position and response
  listed,     \* the last response of GET /api/urls
  stats,      \* the last response of GET /api/analytics
  enc_n,      \* encoder harness: the input number
  enc_out     \* encoder harness: the output, << >> before the call

vars == << urls, seq_id, analytics, cache, reqs, listed, stats, enc_n, enc_out >>

(* --------------------------- Code Encoder ---------------------------- *)
RECURSIVE EncodeLoop(_, _)
\* the while loop of base62_encode: arr collects remainders, least significant first
EncodeLoop(num, arr) ==
  IF num = 0 THEN arr
  ELSE EncodeLoop(num \div Len(BASE62), Append(arr, BASE62[(num % Len(BASE62)) + 1]))

\* arr.reverse()
Reverse(s) == [k \in 1..Len(s) |-> s[Len(s) + 1 - k]]

\* (variant: the remainders are not reversed)
EncodeNoReverse(num) ==
  IF num = 0 THEN << BASE62[1] >> ELSE EncodeLoop(num, << >>)

\* (variant: the first remainder is lost)
EncodeDropLow(num) ==
  IF num \div Len(BASE62) = 0 THEN << BASE62[1] >>
  ELSE Reverse(EncodeLoop(num \div Len(BASE62), << >>))

\* def base62_encode(num): "0" for 0, else the reversed remainders
base62_encode(num) ==
  IF num = 0 THEN << BASE62[1] >> ELSE Reverse(EncodeLoop(num, << >>))

\* (variant: the offset is not added)
ShortCodeNoOffset(id) == base62_encode(id)

\* short_code = base62_encode(db_obj.id + 10000)
ShortCodeFor(id) == base62_encode(id + OFFSET)

\* the keys the cache can hold: every code that can be issued within the bound
\* (one link may exist before the run), and one that never is
UnknownCode == << "d", "o", "e", "s", "n", "o", "t" >>
Codes == {ShortCodeFor(k) : k \in 1..(MaxReqs + 1)} \cup {UnknownCode}

\* the path parameters tried by GET /{short_code}: the issuable codes that leave
\* a request for the lookup, and the one never issued
PathCodes == {ShortCodeFor(k) : k \in 1..(MaxReqs - 1)} \cup {UnknownCode}

(* ------------------------------ store -------------------------------- *)
\* (variant: the filter is lost, the first row is returned)
FindAnyRow(code) ==
  IF urls = << >> THEN NoRow ELSE 1

\* db.query(URLItem).filter(URLItem.short_code == short_code).first():
\* the index of the row, NoRow when there is none (NULL never matches)
FindByCode(code) ==
  IF \E k \in 1..Len(urls) : urls[k].short_code = code
  THEN CHOOSE k \in 1..Len(urls) : urls[k].short_code = code
  ELSE NoRow

\* the row whose primary key is id
RowOfId(id) == CHOOSE k \in 1..Len(urls) : urls[k].id = id

\* the unique index on urls.short_code
UniqueViolation(id, code) ==
  \E k \in 1..Len(urls) : urls[k].id # id /\ urls[k].short_code = code

\* `if cached_url:` a missing key and an empty value both count as a miss
CacheHit(key) == cache[key] # NoUrl /\ cache[key] # ""

\* (variant: the value is stored under the code of the first link, whatever
\* the key)
CacheSetFirstKey(key, value) == [cache EXCEPT ![ShortCodeFor(1)] = value]

\* r_cache.set(key, value, ex=3600)
CacheSet(key, value) == [cache EXCEPT ![key] = value]

\* request.headers.get("CF-IPCountry", "Unknown")
CountryOf(header) == IF header = NoHeader THEN "Unknown" ELSE header

(* ----------------------------- requests ------------------------------ *)
IdleReq ==
  [ kind |-> "idle", pc |-> "idle", url |-> NoUrl, code |-> NoCode,
    country |-> NoUrl, id |-> 0, status |-> 0, fault |-> "none",
    later |-> FALSE, bg |-> "none", sess |-> NoSnap, seen |-> NoSnap ]
\* (id, sess and seen are reset once the handler or the task no longer reads them)

\* the failures injected so far
FaultCount ==
  Cardinality({j \in Reqs : reqs[j].fault # "none" \/ reqs[j].bg = "failed"})

\* the requests made so far
StartedCount == Cardinality({j \in Reqs : reqs[j].kind # "idle"})

\* a dashboard endpoint has been called
ReadDone == listed.called \/ stats.called

\* requests arrive in slot order (the slots are interchangeable)
CanStart(i) ==
  /\ reqs[i].kind = "idle"
  /\ IF i = 1 THEN TRUE ELSE reqs[i - 1].kind # "idle"
  /\ i > MaxFaultReqs => FaultCount = 0
  /\ i > MaxReadReqs => ~ReadDone

\* whether a dashboard endpoint may be called, within the bounds: only in runs
\* of at most MaxReadReqs other requests, none of which met a failure
MayRead == StartedCount <= MaxReadReqs /\ FaultCount = 0

\* whether a step of request i may fail (a commit or query that raises, Redis
\* unreachable, a task that raises), within the bounds: at most MaxFaults
\* failures in a run, and only in runs of at most MaxFaultReqs requests that
\* call no dashboard endpoint
MayFail(i) ==
  /\ FaultCount < MaxFaults
  /\ i <= MaxFaultReqs
  /\ StartedCount <= MaxFaultReqs
  /\ ~ReadDone

\* history: a shorten call has already returned this code to its caller
Returned(code) ==
  \E j \in Reqs : /\ reqs[j].kind = "shorten"
                  /\ reqs[j].status = 200
                  /\ reqs[j].code = code

\* no response yet from a dashboard endpoint
NoResponse == [called |-> FALSE, rows |-> << >>]

Init ==
  /\ urls = << >>
  /\ seq_id = 0
  /\ analytics = << >>
  /\ cache = [c \in Codes |-> NoUrl]
  /\ reqs = [i \in Reqs |-> IdleReq]
  /\ listed = NoResponse
  /\ stats = NoResponse
  /\ enc_n = 0
  /\ enc_out = << >>

Harness == UNCHANGED << listed, stats, enc_n, enc_out >>

(* ------------------------- POST /shorten ----------------------------- *)
\* (variant: the cache is warmed as soon as the row is inserted, before the
\* code is attached)
ShortenInsertWarmFirst(i, u) ==
  /\ CanStart(i)
  /\ seq_id' = seq_id + 1
  /\ urls' = Append(urls, [ id |-> seq_id + 1, original_url |-> u,
                            short_code |-> NoCode, clicks |-> 0 ])
  /\ cache' = CacheSet(ShortCodeFor(seq_id + 1), u)
  /\ reqs' = [reqs EXCEPT ![i] =
       [IdleReq EXCEPT !.kind = "shorten", !.pc = "attach", !.url = u,
                       !.id = seq_id + 1]]
  /\ UNCHANGED analytics

\* db.add(db_obj); db.commit(); db.refresh(db_obj): the row is inserted with
\* the next id, short_code NULL and clicks at its default 0
ShortenInsert(i, u) ==
  /\ CanStart(i)
  /\ seq_id' = seq_id + 1
  /\ urls' = Append(urls, [ id |-> seq_id + 1, original_url |-> u,
                            short_code |-> NoCode, clicks |-> 0 ])
  /\ reqs' = [reqs EXCEPT ![i] =
       [IdleReq EXCEPT !.kind = "shorten", !.pc = "attach", !.url = u,
                       !.id = seq_id + 1]]
  /\ UNCHANGED << analytics, cache >>

\* the first commit raises: nothing is inserted (the sequence may have moved)
ShortenInsertFail(i, u) ==
  /\ CanStart(i)
  /\ MayFail(i)
  /\ seq_id' \in {seq_id, seq_id + 1}
  /\ reqs' = [reqs EXCEPT ![i] =
       [IdleReq EXCEPT !.kind = "shorten", !.pc = "done", !.url = u,
                       !.status = 500, !.fault = "db"]]
  /\ UNCHANGED << urls, analytics, cache >>

\* (variant: the code is computed before the id is known, on a column without
\* the unique index)
ShortenAttachNoIndex(i) ==
  /\ reqs[i].kind = "shorten" /\ reqs[i].pc = "attach"
  /\ LET code == ShortCodeFor(1) IN
       /\ urls' = [urls EXCEPT ![RowOfId(reqs[i].id)].short_code = code]
       /\ reqs' = [reqs EXCEPT ![i].pc = "cache", ![i].code = code, ![i].id = 0]
  /\ UNCHANGED << seq_id, analytics, cache >>

\* (variant: the update is not restricted to the call's own row:
\* UPDATE urls SET short_code = :code WHERE short_code IS NULL)
ShortenAttachEveryPending(i) ==
  /\ reqs[i].kind = "shorten" /\ reqs[i].pc = "attach"
  /\ LET code == ShortCodeFor(reqs[i].id) IN
       /\ urls' = [k \in 1..Len(urls) |->
                     IF urls[k].short_code = NoCode
                     THEN [urls[k] EXCEPT !.short_code = code]
                     ELSE urls[k]]
       /\ reqs' = [reqs EXCEPT ![i].pc = "cache", ![i].code = code, ![i].id = 0]
  /\ UNCHANGED << seq_id, analytics, cache >>

\* short_code = base62_encode(db_obj.id + 10000); db_obj.short_code = short_code;
\* db.commit(), which the unique index on short_code may refuse
ShortenAttach(i) ==
  /\ reqs[i].kind = "shorten" /\ reqs[i].pc = "attach"
  /\ LET code == ShortCodeFor(reqs[i].id) IN
       IF UniqueViolation(reqs[i].id, code)
       THEN /\ reqs' = [reqs EXCEPT ![i].pc = "done", ![i].status = 500,
                                    ![i].fault = "conflict", ![i].id = 0]
            /\ UNCHANGED urls
       ELSE /\ urls' = [urls EXCEPT ![RowOfId(reqs[i].id)].short_code = code]
            /\ reqs' = [reqs EXCEPT ![i].pc = "cache", ![i].code = code, ![i].id = 0]
  /\ UNCHANGED << seq_id, analytics, cache >>

\* (variant: the failed call deletes the row it inserted)
ShortenAttachFailRollback(i) ==
  /\ reqs[i].kind = "shorten" /\ reqs[i].pc = "attach"
  /\ MayFail(i)
  /\ urls' = SelectSeq(urls, LAMBDA r : r.id # reqs[i].id)
  /\ reqs' = [reqs EXCEPT ![i].pc = "done", ![i].status = 500, ![i].fault = "db"]
  /\ UNCHANGED << seq_id, analytics, cache >>

\* the second commit raises: the row stays without a code (the request keeps
\* the id of the row it leaves behind)
ShortenAttachFail(i) ==
  /\ reqs[i].kind = "shorten" /\ reqs[i].pc = "attach"
  /\ MayFail(i)
  /\ reqs' = [reqs EXCEPT ![i].pc = "done", ![i].status = 500, ![i].fault = "db"]
  /\ UNCHANGED << urls, seq_id, analytics, cache >>

\* r_cache.set(short_code, item.url, ex=3600); return {short_code, original}
ShortenCacheSet(i) ==
  /\ reqs[i].kind = "shorten" /\ reqs[i].pc = "cache"
  /\ cache' = CacheSet(reqs[i].code, reqs[i].url)
  /\ reqs' = [reqs EXCEPT ![i].pc = "done", ![i].status = 200]
  /\ UNCHANGED << urls, seq_id, analytics >>

\* r_cache.set raises (Redis unreachable): nothing catches it
ShortenCacheSetFail(i) ==
  /\ reqs[i].kind = "shorten" /\ reqs[i].pc = "cache"
  /\ MayFail(i)
  /\ reqs' = [reqs EXCEPT ![i].pc = "done", ![i].status = 500, ![i].fault = "cache"]
  /\ UNCHANGED << urls, seq_id, analytics, cache >>

(* ----------------------- GET /{short_code} --------------------------- *)
\* cached_url = r_cache.get(short_code); on a hit the country is read from the
\* header, the task is scheduled and the response returned
ResolveCacheGet(i, c, h) ==
  /\ CanStart(i)
  /\ reqs' = [reqs EXCEPT ![i] =
       IF CacheHit(c)
       THEN [IdleReq EXCEPT !.kind = "resolve", !.pc = "done", !.code = c,
                            !.later = Returned(c), !.url = cache[c],
                            !.country = CountryOf(h), !.status = 200,
                            !.bg = "scheduled"]
       ELSE [IdleReq EXCEPT !.kind = "resolve", !.pc = "lookup", !.code = c,
                            !.later = Returned(c)]]
  /\ UNCHANGED << urls, seq_id, analytics, cache >>

\* r_cache.get raises (Redis unreachable): nothing catches it
ResolveCacheGetFail(i, c) ==
  /\ CanStart(i)
  /\ MayFail(i)
  /\ reqs' = [reqs EXCEPT ![i] =
       [IdleReq EXCEPT !.kind = "resolve", !.pc = "done", !.code = c,
                       !.later = Returned(c), !.status = 500, !.fault = "cache"]]
  /\ UNCHANGED << urls, seq_id, analytics, cache >>

\* (variant: the task is scheduled before the 404 is raised)
ResolveLookupTaskFirst(i) ==
  /\ reqs[i].kind = "resolve" /\ reqs[i].pc = "lookup"
  /\ LET k == FindByCode(reqs[i].code) IN
       reqs' = [reqs EXCEPT ![i] =
         IF k = NoRow
         THEN [@ EXCEPT !.pc = "done", !.status = 404, !.country = "Unknown",
                        !.bg = "scheduled"]
         ELSE [@ EXCEPT !.pc = "fill", !.url = urls[k].original_url,
                        !.sess = urls[k].clicks]]
  /\ UNCHANGED << urls, seq_id, analytics, cache >>

\* url_item = db.query(URLItem).filter(...).first(); 404 when there is none.
\* The row read here stays in the request's session with the clicks it had.
ResolveLookup(i) ==
  /\ reqs[i].kind = "resolve" /\ reqs[i].pc = "lookup"
  /\ LET k == FindByCode(reqs[i].code) IN
       reqs' = [reqs EXCEPT ![i] =
         IF k = NoRow
         THEN [@ EXCEPT !.pc = "done", !.status = 404]
         ELSE [@ EXCEPT !.pc = "fill", !.url = urls[k].original_url,
                        !.sess = urls[k].clicks]]
  /\ UNCHANGED << urls, seq_id, analytics, cache >>

\* the query raises
ResolveLookupFail(i) ==
  /\ reqs[i].kind = "resolve" /\ reqs[i].pc = "lookup"
  /\ MayFail(i)
  /\ reqs' = [reqs EXCEPT ![i].pc = "done", ![i].status = 500, ![i].fault = "db"]
  /\ UNCHANGED << urls, seq_id, analytics, cache >>

\* (variant: the response is returned without the task being added)
ResolveCacheSetNoTask(i, h) ==
  /\ reqs[i].kind = "resolve" /\ reqs[i].pc = "fill"
  /\ cache' = CacheSet(reqs[i].code, reqs[i].url)
  /\ reqs' = [reqs EXCEPT ![i].pc = "done", ![i].status = 200,
                          ![i].country = CountryOf(h), ![i].sess = NoSnap]
  /\ UNCHANGED << urls, seq_id, analytics >>

\* r_cache.set(short_code, target_url, ex=3600); country = headers.get(...);
\* add_task(record_analytics, ...); return {status, location}
ResolveCacheSet(i, h) ==
  /\ reqs[i].kind = "resolve" /\ reqs[i].pc = "fill"
  /\ cache' = CacheSet(reqs[i].code, reqs[i].url)
  /\ reqs' = [reqs EXCEPT ![i].pc = "done", ![i].status = 200,
                          ![i].country = CountryOf(h), ![i].bg = "scheduled"]
  /\ UNCHANGED << urls, seq_id, analytics >>

\* r_cache.set raises (Redis unreachable): nothing catches it
ResolveCacheSetFail(i) ==
  /\ reqs[i].kind = "resolve" /\ reqs[i].pc = "fill"
  /\ MayFail(i)
  /\ reqs' = [reqs EXCEPT ![i].pc = "done", ![i].status = 500, ![i].fault = "cache",
                          ![i].url = NoUrl, ![i].sess = NoSnap]
  /\ UNCHANGED << urls, seq_id, analytics, cache >>

\* a key's ttl runs out, or Redis evicts it
CacheExpire(c) ==
  /\ cache[c] # NoUrl
  /\ cache' = [cache EXCEPT ![c] = NoUrl]
  /\ UNCHANGED << urls, seq_id, analytics, reqs >>

(* ------------------------ record_analytics --------------------------- *)
\* the clicks value that url_item.clicks += 1 reads: the row's current value,
\* or, when the handler's lookup left the row in the still-open session, the
\* value loaded then (whether get_db closes the session before the task runs
\* depends on the FastAPI release)
ClicksRead(i, k) ==
  {urls[k].clicks} \cup (IF reqs[i].sess # NoSnap THEN {reqs[i].sess} ELSE {})

\* url_item = db.query(URLItem)...first(); if url_item: url_item.clicks += 1
\* (the new value is computed in Python and sits in the session until commit)
RecordRead(i) ==
  /\ reqs[i].bg = "scheduled"
  /\ LET k == FindByCode(reqs[i].code) IN
       IF k = NoRow
       THEN reqs' = [reqs EXCEPT ![i].bg = "read", ![i].seen = NoSnap,
                                 ![i].sess = NoSnap]
       ELSE \E c \in ClicksRead(i, k) :
              reqs' = [reqs EXCEPT ![i].bg = "read", ![i].seen = c + 1,
                                   ![i].sess = NoSnap]
  /\ UNCHANGED << urls, seq_id, analytics, cache >>

\* (variant: the event is added twice)
RecordCommitTwice(i) ==
  /\ reqs[i].bg = "read"
  /\ LET k == FindByCode(reqs[i].code)
         ev == [ short_code |-> reqs[i].code, country |-> reqs[i].country ] IN
       /\ urls' = IF reqs[i].seen = NoSnap \/ k = NoRow THEN urls
                  ELSE [urls EXCEPT ![k].clicks = reqs[i].seen]
       /\ analytics' = Append(Append(analytics, ev), ev)
  /\ reqs' = [reqs EXCEPT ![i].bg = "done", ![i].seen = NoSnap]
  /\ UNCHANGED << seq_id, cache >>

\* db.add(log_entry); db.commit(): UPDATE urls SET clicks = <value> and
\* INSERT INTO analytics, in one transaction
RecordCommit(i) ==
  /\ reqs[i].bg = "read"
  /\ LET k == FindByCode(reqs[i].code) IN
       urls' = IF reqs[i].seen = NoSnap \/ k = NoRow THEN urls
               ELSE [urls EXCEPT ![k].clicks = reqs[i].seen]
  /\ analytics' = Append(analytics, [ short_code |-> reqs[i].code,
                                      country |-> reqs[i].country ])
  /\ reqs' = [reqs EXCEPT ![i].bg = "done", ![i].seen = NoSnap]
  /\ UNCHANGED << seq_id, cache >>

\* (variant: the failure of the task replaces the response)
RecordFailSurfaces(i) ==
  /\ reqs[i].bg \in {"scheduled", "read"}
  /\ MayFail(i)
  /\ reqs' = [reqs EXCEPT ![i].bg = "failed", ![i].seen = NoSnap, ![i].sess = NoSnap,
                          ![i].status = 500, ![i].url = NoUrl]
  /\ UNCHANGED << urls, seq_id, analytics, cache >>

\* (variant: the click is committed on its own, before the event that fails)
RecordFailAfterClick(i) ==
  /\ reqs[i].bg = "read"
  /\ MayFail(i)
  /\ LET k == FindByCode(reqs[i].code) IN
       urls' = IF reqs[i].seen = NoSnap \/ k = NoRow THEN urls
               ELSE [urls EXCEPT ![k].clicks = reqs[i].seen]
  /\ reqs' = [reqs EXCEPT ![i].bg = "failed", ![i].seen = NoSnap, ![i].sess = NoSnap]
  /\ UNCHANGED << seq_id, analytics, cache >>

\* the task raises (query or commit fails): the transaction is lost, the
\* response has already been sent
RecordFail(i) ==
  /\ reqs[i].bg \in {"scheduled", "read"}
  /\ MayFail(i)
  /\ reqs' = [reqs EXCEPT ![i].bg = "failed", ![i].seen = NoSnap, ![i].sess = NoSnap]
  /\ UNCHANGED << urls, seq_id, analytics, cache >>

(* --------------------------- dashboard ------------------------------- *)
RECURSIVE OrderByIdDesc(_, _)
\* order_by(URLItem.id.desc()): the rows at the indexes S of the table, largest
\* id first
OrderByIdDesc(rows, S) ==
  IF S = {} THEN << >>
  ELSE LET m == CHOOSE k \in S : \A j \in S : rows[j].id <= rows[k].id
       IN << rows[m] >> \o OrderByIdDesc(rows, S \ {m})

\* .limit(n)
Limit(sq, n) == SubSeq(sq, 1, IF Len(sq) < n THEN Len(sq) ELSE n)

\* (variant: the order is ascending)
get_all_urls_asc(rows) == Limit(rows, LIMIT)

\* db.query(URLItem).order_by(URLItem.id.desc()).limit(50).all()
get_all_urls(rows) == Limit(OrderByIdDesc(rows, 1..Len(rows)), LIMIT)

\* db.query(country, count(country)).group_by(country).all(), as the set of
\* {name, clicks} objects returned
get_analytics(events) ==
  { [ name |-> c,
      clicks |-> Cardinality({k \in 1..Len(events) : events[k].country = c}) ] :
    c \in {events[k].country : k \in 1..Len(events)} }

\* GET /api/urls (only the latest dashboard response is kept)
GetAllUrls ==
  /\ MayRead
  /\ listed' = [called |-> TRUE, rows |-> get_all_urls(urls)]
  /\ stats' = NoResponse
  /\ UNCHANGED << urls, seq_id, analytics, cache, reqs >>

\* GET /api/analytics
GetAnalytics ==
  /\ MayRead
  /\ stats' = [called |-> TRUE, rows |-> get_analytics(analytics)]
  /\ listed' = NoResponse
  /\ UNCHANGED << urls, seq_id, analytics, cache, reqs >>

(* -------------------------- specification ---------------------------- *)
Next ==
  \/ \E i \in Reqs, u \in URLs : ShortenInsert(i, u) /\ Harness
  \/ \E i \in Reqs, u \in URLs : ShortenInsertFail(i, u) /\ Harness
  \/ \E i \in Reqs : ShortenAttach(i) /\ Harness
  \/ \E i \in Reqs : ShortenAttachFail(i) /\ Harness
  \/ \E i \in Reqs : ShortenCacheSet(i) /\ Harness
  \/ \E i \in Reqs : ShortenCacheSetFail(i) /\ Harness
  \/ \E i \in Reqs, c \in PathCodes, h \in Headers : ResolveCacheGet(i, c, h) /\ Harness
  \/ \E i \in Reqs, c \in PathCodes : ResolveCacheGetFail(i, c) /\ Harness
  \/ \E i \in Reqs : ResolveLookup(i) /\ Harness
  \/ \E i \in Reqs : ResolveLookupFail(i) /\ Harness
  \/ \E i \in Reqs, h \in Headers : ResolveCacheSet(i, h) /\ Harness
  \/ \E i \in Reqs : ResolveCacheSetFail(i) /\ Harness
  \/ \E i \in Reqs : RecordRead(i) /\ Harness
  \/ \E i \in Reqs : RecordCommit(i) /\ Harness
  \/ \E i \in Reqs : RecordFail(i) /\ Harness
  \/ \E c \in Codes : CacheExpire(c) /\ Harness
  \/ GetAllUrls /\ UNCHANGED << enc_n, enc_out >>
  \/ GetAnalytics /\ UNCHANGED << enc_n, enc_out >>

Spec == Init /\ [][Next]_vars

\* a step of some task: it goes on, or it raises
RecordStep ==
  \E i \in Reqs : (RecordRead(i) \/ RecordCommit(i) \/ RecordFail(i)) /\ Harness

\* the server keeps running and its workers keep taking the tasks they were
\* given: while a task is pending, a task step is eventually taken
FairSpec == Spec /\ WF_vars(RecordStep)

(* ------------------------- encoder harness --------------------------- *)
EncInit ==
  /\ urls = << >>
  /\ seq_id = 0
  /\ analytics = << >>
  /\ cache = [c \in Codes |-> NoUrl]
  /\ reqs = [i \in Reqs |-> IdleReq]
  /\ listed = NoResponse
  /\ stats = NoResponse
  /\ enc_n \in 0..MaxEncode
  /\ enc_out = << >>

EncCall ==
  /\ enc_out = << >>
  /\ enc_out' = base62_encode(enc_n)
  /\ UNCHANGED << urls, seq_id, analytics, cache, reqs, listed, stats, enc_n >>

EncNext == EncCall

EncSpec == EncInit /\ [][EncNext]_vars

(* ------------------------- listing harness --------------------------- *)
\* a table of n links created one after the other, their ids step apart (the
\* sequence skips an id when an insert fails), every code attached
TableOf(n, step) ==
  [k \in 1..n |-> [ id |-> k * step,
                    original_url |-> IF k % 2 = 0 THEN "" ELSE "https://example.com/a",
                    short_code |-> ShortCodeFor(k * step),
                    clicks |-> 0 ]]

ListInit ==
  /\ \E n \in 0..MaxRows, step \in {1, 2} :
       /\ urls = TableOf(n, step)
       /\ seq_id = n * step
  /\ analytics = << >>
  /\ cache = [c \in Codes |-> NoUrl]
  /\ reqs = [i \in Reqs |-> IdleReq]
  /\ listed = NoResponse
  /\ stats = NoResponse
  /\ enc_n = 0
  /\ enc_out = << >>

ListNext == GetAllUrls /\ UNCHANGED << enc_n, enc_out >>

ListSpec == ListInit /\ [][ListNext]_vars

(* ------------------------- a link in service -------------------------- *)
\* the state a completed POST /shorten {url: "https://example.com/a"} leaves
\* behind on an empty table, the call itself over: the row of id 1 with its
\* code, the cache warmed, no request in progress
WarmInit ==
  /\ urls = << [ id |-> 1, original_url |-> "https://example.com/a",
                 short_code |-> ShortCodeFor(1), clicks |-> 0 ] >>
  /\ seq_id = 1
  /\ analytics = << >>
  /\ cache = [c \in Codes |->
                IF c = ShortCodeFor(1) THEN "https://example.com/a" ELSE NoUrl]
  /\ reqs = [i \in Reqs |-> IdleReq]
  /\ listed = NoResponse
  /\ stats = NoResponse
  /\ enc_n = 0
  /\ enc_out = << >>

WarmSpec == WarmInit /\ [][Next]_vars

(* ============================== claims =============================== *)
\* the rows that carry a code
RowsWith(code) == {k \in 1..Len(urls) : urls[k].short_code = code}

Shortens == {i \in Reqs : reqs[i].kind = "shorten"}
Resolves == {i \in Reqs : reqs[i].kind = "resolve"}

\* C1: round trip.  Once shorten(u) has returned code c, every resolve of c
\* that starts afterwards and meets no store or cache failure answers 200 with
\* location u, whatever the country, whether the cache still holds the entry
\* or has lost it, and whatever other calls interleave.
C1_RoundTrip ==
  \A i \in Resolves, j \in Shortens :
    ( /\ reqs[j].status = 200
      /\ reqs[i].code = reqs[j].code
      /\ reqs[i].later
      /\ reqs[i].pc = "done"
      /\ reqs[i].fault = "none" )
    => /\ reqs[i].status = 200
       /\ reqs[i].url = reqs[j].url

\* a resolve that started after the shorten returned, found the warmed entry
\* gone, went to the store and answered with the URL
C1_Witness ==
  \E i \in Resolves, j \in Shortens :
    /\ reqs[j].status = 200 /\ reqs[j].url = "https://example.com/a"
    /\ reqs[i].code = reqs[j].code /\ reqs[i].later
    /\ reqs[i].status = 200 /\ reqs[i].sess # NoSnap
    /\ reqs[i].url = "https://example.com/a"

\* C2: any two shorten calls that return a code return distinct codes, and no
\* two rows of urls with a code set share it.
C2_DistinctCodes ==
  /\ \A i, j \in Shortens :
       (i # j /\ reqs[i].status = 200 /\ reqs[j].status = 200)
       => reqs[i].code # reqs[j].code
  /\ \A k, l \in 1..Len(urls) :
       (k # l /\ urls[k].short_code # NoCode)
       => urls[k].short_code # urls[l].short_code

\* two shorten calls of the same URL, in flight together, both with their code
\* attached
C2_Witness ==
  \E i, j \in Shortens :
    /\ i # j
    /\ reqs[i].pc = "cache" /\ reqs[j].pc = "cache"
    /\ reqs[i].url = reqs[j].url

\* C3: when every successful resolve of a code has had its record_analytics
\* task complete, the row's clicks equals the number of those resolves.
C3_NoLostClicks ==
  \A c \in PathCodes :
    LET ok == {i \in Resolves : reqs[i].code = c /\ reqs[i].status = 200} IN
      (ok # {} /\ \A i \in ok : reqs[i].bg = "done")
      => \A k \in RowsWith(c) : urls[k].clicks = Cardinality(ok)

\* C4: a resolve of a code that no row carries answers 404 (unless the store or
\* the cache failed under it) and never has a task; the step that answers 404
\* leaves both tables as they were.
C4_UnknownCode ==
  /\ [](\A i \in Resolves :
          (reqs[i].pc = "done" /\ RowsWith(reqs[i].code) = {})
          => /\ reqs[i].status # 200
             /\ reqs[i].fault = "none" => reqs[i].status = 404
             /\ reqs[i].bg = "none")
  /\ [][\A i \in Reqs :
          (reqs[i].status # 404 /\ reqs'[i].status = 404)
          => /\ reqs'[i].bg = "none"
             /\ UNCHANGED << urls, seq_id, analytics >>]_vars

\* a resolve of the code never issued answered 404 while the store holds a link
C4_Witness ==
  \E i \in Resolves :
    /\ reqs[i].code = UnknownCode /\ reqs[i].status = 404
    /\ \E k \in 1..Len(urls) : urls[k].short_code # NoCode

\* C5: a resolve of an existing code under which the cache failed still answers
\* 200 with the row's original_url.
C5_CacheFailureIsMiss ==
  \A i \in Resolves :
    (reqs[i].pc = "done" /\ reqs[i].fault = "cache" /\ RowsWith(reqs[i].code) # {})
    => /\ reqs[i].status = 200
       /\ \E k \in RowsWith(reqs[i].code) : reqs[i].url = urls[k].original_url

\* C6: a shorten whose cache warm-up failed still answers 200 with the code of
\* its row.
C6_WarmupFailureSwallowed ==
  \A i \in Shortens :
    (reqs[i].pc = "done" /\ reqs[i].fault = "cache")
    => /\ reqs[i].status = 200
       /\ \E k \in RowsWith(reqs[i].code) : urls[k].original_url = reqs[i].url

\* C7: shorten("") is refused before the store is touched: the call answers
\* with a validation error (422) and no row holds the empty URL.
C7_EmptyUrlRejected ==
  /\ \A i \in Shortens : reqs[i].url = "" => reqs[i].status = 422
  /\ \A k \in 1..Len(urls) : urls[k].original_url # ""

\* C8: every row with a code has short_code = encode(id + 10000), the code a
\* shorten returns is the code of the row it inserted, and a row gets its code
\* only in a step after the one that gave it its id.
C8_CodeFromId ==
  /\ [](/\ \A k \in 1..Len(urls) :
             urls[k].short_code # NoCode
             => urls[k].short_code = base62_encode(urls[k].id + 10000)
        /\ \A i \in Shortens :
             reqs[i].status = 200
             => \E k \in 1..Len(urls) :
                  /\ urls[k].short_code = reqs[i].code
                  /\ urls[k].original_url = reqs[i].url
                  /\ reqs[i].code = base62_encode(urls[k].id + 10000))
  /\ [][\A k \in 1..Len(urls') :
          urls'[k].short_code # NoCode
          => /\ k <= Len(urls)
             /\ urls[k].id = urls'[k].id
             /\ urls[k].id >= 1]_vars

\* a shorten has returned the code of its row
C8_Witness ==
  \E i \in Shortens, k \in 1..Len(urls) :
    /\ reqs[i].status = 200
    /\ urls[k].short_code = reqs[i].code
    /\ urls[k].id = 2

\* the value of a symbol: digits 0-9, then lowercase 10-35, then uppercase 36-61
SymbolValue(ch) == (CHOOSE k \in 1..62 : BASE62[k] = ch) - 1

RECURSIVE Positional(_)
\* the number a symbol sequence denotes in base 62, most significant first
Positional(s) ==
  IF s = << >> THEN 0
  ELSE 62 * Positional(SubSeq(s, 1, Len(s) - 1)) + SymbolValue(s[Len(s)])

\* C9: encode(n) is the base-62 numeral of n over digits, lowercase, uppercase,
\* most significant symbol first: alphabet symbols only, the single symbol "0"
\* for 0, and no leading "0" otherwise.
C9_Base62Numeral ==
  enc_out # << >> =>
    /\ BASE62[1] = "0" /\ BASE62[10] = "9" /\ BASE62[11] = "a"
    /\ BASE62[36] = "z" /\ BASE62[37] = "A" /\ BASE62[62] = "Z"
    /\ \A k \in 1..Len(enc_out) : \E d \in 1..62 : BASE62[d] = enc_out[k]
    /\ Positional(enc_out) = enc_n
    /\ enc_n = 0 => enc_out = << "0" >>
    /\ enc_n > 0 => enc_out[1] # "0"

\* the encoder was applied to 10001, the number of the first link
C9_Witness == enc_n = 10001 /\ enc_out = << "2", "B", "j" >>

\* C10: distinct issued ids have distinct codes.
C10_InjectiveOnIssued ==
  \A a, b \in 1..seq_id :
    a # b => base62_encode(a + OFFSET) # base62_encode(b + OFFSET)

\* two links have been created and carry their codes
C10_Witness ==
  /\ seq_id >= 2
  /\ \E k, l \in 1..Len(urls) :
       /\ urls[k].id # urls[l].id
       /\ urls[k].short_code # NoCode /\ urls[l].short_code # NoCode

\* the events stored for a code and a country, and the resolves of that code
\* that answered 200 with that country
EventsOf(c, co) ==
  {k \in 1..Len(analytics) :
     analytics[k].short_code = c /\ analytics[k].country = co}
HitsOf(c, co) ==
  {i \in Resolves : reqs[i].code = c /\ reqs[i].status = 200 /\ reqs[i].country = co}
Countries == {CountryOf(h) : h \in Headers}

\* C11: the events stored for (code, country) never outnumber the successful
\* resolves of (code, country) and equal them once each of their tasks has
\* completed; a code resolved exactly once, its task completed, has clicks = 1.
C11_OneEventPerResolve ==
  \A c \in PathCodes :
    /\ \A co \in Countries :
         /\ Cardinality(EventsOf(c, co)) <= Cardinality(HitsOf(c, co))
         /\ (\A i \in HitsOf(c, co) : reqs[i].bg = "done")
            => Cardinality(EventsOf(c, co)) = Cardinality(HitsOf(c, co))
    /\ \A i \in Resolves :
         ( /\ reqs[i].code = c /\ reqs[i].status = 200 /\ reqs[i].bg = "done"
           /\ \A j \in Resolves \ {i} :
                reqs[j].code = c => reqs[j].status \in {404, 500} )
         => \A k \in RowsWith(c) : urls[k].clicks = 1

\* the scenario of the spec: one link, one resolve from "US", the task run
C11_Witness ==
  /\ Len(urls) = 1 /\ urls[1].id = 1 /\ urls[1].clicks = 1
  /\ urls[1].original_url = "https://example.com/a"
  /\ analytics = << [short_code |-> ShortCodeFor(1), country |-> "US"] >>
  /\ Cardinality(HitsOf(ShortCodeFor(1), "US")) = 1

\* C12: once a resolve has scheduled its task the response is final: no later
\* step changes its status or location, whether the task completes, fails or
\* never runs; the task starts only after the response, and a failed task
\* stays failed.
C12_RecorderIsolated ==
  /\ [](\A i \in Reqs :
          reqs[i].bg # "none"
          => reqs[i].kind = "resolve" /\ reqs[i].pc = "done" /\ reqs[i].status = 200)
  /\ [][\A i \in Reqs :
          reqs[i].bg # "none"
          => /\ reqs'[i].status = reqs[i].status
             /\ reqs'[i].url = reqs[i].url
             /\ reqs'[i].pc = reqs[i].pc
             /\ reqs'[i].fault = reqs[i].fault
             /\ reqs[i].bg = "failed" => reqs'[i].bg = "failed"]_vars

\* a task failed under a resolve that answered 200
C12_Witness ==
  \E i \in Resolves :
    /\ reqs[i].bg = "failed" /\ reqs[i].status = 200
    /\ reqs[i].url = "https://example.com/a"

\* C13: a resolve that answers 200 has scheduled its task, and at the step
\* that produces the response the task is pending, not run; under fair
\* scheduling every scheduled task eventually runs to its end (it completes or
\* raises): no task stays pending for ever.
C13_RecorderScheduled ==
  /\ [](\A i \in Resolves : reqs[i].status = 200 => reqs[i].bg # "none")
  /\ [][\A i \in Reqs :
          (reqs[i].status = 0 /\ reqs'[i].kind = "resolve" /\ reqs'[i].status = 200)
          => reqs'[i].bg = "scheduled"]_vars
  /\ []<>(\A i \in Reqs : reqs[i].bg \in {"none", "done", "failed"})

\* the response of a redirect is out while its task has not started
C13_Witness ==
  \E i \in Resolves :
    /\ reqs[i].pc = "done" /\ reqs[i].status = 200
    /\ reqs[i].url = "https://example.com/a"
    /\ reqs[i].bg = "scheduled"
    /\ analytics = << >>

\* C14: a code is in the cache only if a row carries it; a resolve answers
\* 200 only for a code that a row carries at that step; and a lookup made
\* while no row carries the code ends in 404 (or in 500 when the query itself
\* raises), never in a location.
C14_NotFoundUntilAttached ==
  /\ [](\A c \in Codes : cache[c] # NoUrl => RowsWith(c) # {})
  /\ [][\A i \in Reqs :
          /\ ( /\ reqs[i].status = 0
               /\ reqs'[i].kind = "resolve" /\ reqs'[i].status = 200 )
             => RowsWith(reqs'[i].code) # {}
          /\ ( /\ reqs[i].kind = "resolve" /\ reqs[i].pc = "lookup"
               /\ RowsWith(reqs[i].code) = {}
               /\ reqs'[i] # reqs[i] )
             => /\ reqs'[i].pc = "done"
                /\ reqs'[i].status \in {404, 500}
                /\ reqs'[i].status = 500 => reqs'[i].fault = "db"]_vars

\* the race: the row of id 1 is inserted, its code not yet attached, and a
\* resolve of that code has answered 404
C14_Witness ==
  \E i \in Resolves, j \in Shortens :
    /\ reqs[j].pc = "attach" /\ reqs[j].id = 1
    /\ urls[1].short_code = NoCode
    /\ reqs[i].code = ShortCodeFor(1) /\ reqs[i].status = 404
    /\ cache[ShortCodeFor(1)] = NoUrl

\* C15: the list returned by GET /api/urls has at most 50 rows, its ids are
\* strictly decreasing, it holds min(50, total) rows, each of them a row of the
\* table, and every row of the table left out has a smaller id than every row
\* returned.
C15_RecentFirstBounded ==
  listed.called =>
    LET r == listed.rows
        total == Len(urls)
    IN /\ Len(r) <= 50
       /\ \A k \in 1..(Len(r) - 1) : r[k].id > r[k + 1].id
       /\ Len(r) = IF total < 50 THEN total ELSE 50
       /\ \A k \in 1..Len(r) : \E j \in 1..total : urls[j] = r[k]
       /\ \A j \in 1..total :
            (\A k \in 1..Len(r) : r[k] # urls[j])
            => \A k \in 1..Len(r) : urls[j].id < r[k].id

\* a table of more than 50 rows, listed: the five oldest rows are left out
C15_Witness ==
  /\ listed.called
  /\ Len(urls) = 55
  /\ Len(listed.rows) = 50
  /\ listed.rows[1].id = urls[55].id
  /\ listed.rows[50].id = urls[6].id

\* the shorten calls whose second commit raised after the first succeeded
AttachFailed ==
  {j \in Shortens : reqs[j].pc = "done" /\ reqs[j].fault = "db" /\ reqs[j].id # 0}

\* C16: a shorten call whose attach commit raised answers with a failure and no
\* code; the row it inserted is still in the table, with its url, no code and
\* clicks = 0; the cache has no entry under the code the row would have had,
\* and no resolve of that code has answered 200.
C16_OrphanAfterAttachFailure ==
  \A j \in AttachFailed :
    LET code == base62_encode(reqs[j].id + OFFSET) IN
      /\ reqs[j].status = 500
      /\ reqs[j].code = NoCode
      /\ \E k \in 1..Len(urls) :
           /\ urls[k].id = reqs[j].id
           /\ urls[k].original_url = reqs[j].url
           /\ urls[k].short_code = NoCode
           /\ urls[k].clicks = 0
      /\ RowsWith(code) = {}
      /\ cache[code] = NoUrl
      /\ \A i \in Resolves : reqs[i].code = code => reqs[i].status # 200

\* an attach commit failed on the row of id 1 and a later resolve of the code
\* that row would have had answered 404
C16_Witness ==
  \E j \in AttachFailed, i \in Resolves :
    /\ reqs[j].id = 1 /\ i > j
    /\ Len(urls) = 1 /\ urls[1].short_code = NoCode
    /\ reqs[i].code = ShortCodeFor(1)
    /\ reqs[i].status = 404

\* C17: in every step no row is removed, no row changes its id or its
\* original_url, and a row that has a code keeps it; a step of a task changes
\* nothing of a row but clicks; a step of a resolve handler or of a dashboard
\* endpoint changes no row; a step of a shorten call changes no row but the
\* one the call itself inserted.
C17_LinksImmutable ==
  [][ /\ Len(urls') >= Len(urls)
      /\ \A k \in 1..Len(urls) :
           /\ urls'[k].id = urls[k].id
           /\ urls'[k].original_url = urls[k].original_url
           /\ urls[k].short_code # NoCode => urls'[k].short_code = urls[k].short_code
      /\ (\E i \in Reqs : reqs[i].bg \in {"scheduled", "read"} /\ reqs'[i].bg # reqs[i].bg)
         => /\ Len(urls') = Len(urls)
            /\ \A k \in 1..Len(urls) :
                 [urls'[k] EXCEPT !.clicks = urls[k].clicks] = urls[k]
      /\ (\E i \in Reqs : reqs'[i].kind = "resolve" /\ reqs'[i].pc # reqs[i].pc)
         => urls' = urls
      /\ (listed' # listed \/ stats' # stats) => urls' = urls
      /\ \A i \in Reqs :
           (reqs'[i].kind = "shorten" /\ reqs'[i] # reqs[i])
           => \A k \in 1..Len(urls) :
                urls[k].id # reqs[i].id => urls'[k] = urls[k]
    ]_vars

\* a link that was resolved and counted, still as created, beside a second
\* link created and given its code after it
C17_Witness ==
  /\ Len(urls) = 2
  /\ urls[1] = [ id |-> 1, original_url |-> "https://example.com/a",
                 short_code |-> ShortCodeFor(1), clicks |-> 1 ]
  /\ urls[2].id = 2 /\ urls[2].short_code = ShortCodeFor(2)
  /\ Len(analytics) = 1

\* C18: every cache entry code -> url has a row with that code and that
\* original_url.
C18_CacheCoherent ==
  \A c \in Codes :
    cache[c] # NoUrl
    => \E k \in 1..Len(urls) :
         urls[k].short_code = c /\ urls[k].original_url = cache[c]

\* two links of different urls both cached, the first entry written by a
\* resolve that missed the cache (it began before the shorten call had warmed
\* it) and found the row
C18_Witness ==
  /\ Len(urls) = 2
  /\ urls[1].original_url # urls[2].original_url
  /\ cache[ShortCodeFor(1)] = urls[1].original_url
  /\ cache[ShortCodeFor(2)] = urls[2].original_url
  /\ \E i \in Resolves :
       /\ reqs[i].code = ShortCodeFor(1) /\ reqs[i].status = 200
       /\ ~reqs[i].later

\* the events stored for a code
EventsFor(c) == {k \in 1..Len(analytics) : analytics[k].short_code = c}

\* C20: the clicks of a row that has a code never exceed the number of events
\* stored for that code.
C20_ClicksWithinEvents ==
  \A k \in 1..Len(urls) :
    urls[k].short_code # NoCode
    => urls[k].clicks <= Cardinality(EventsFor(urls[k].short_code))

\* two tasks for the same code have both committed, their reads and commits
\* interleaved: two events, one click
C20_Witness ==
  /\ Len(urls) = 1 /\ urls[1].short_code = ShortCodeFor(1)
  /\ urls[1].clicks = 1
  /\ Cardinality(EventsFor(ShortCodeFor(1))) = 2
  /\ Cardinality({i \in Resolves : reqs[i].bg = "done"}) = 2

\* C19: a row is inserted with clicks = 0 and in every step the clicks of
\* every row are at least what they were before the step.
C19_ClicksNeverDecrease ==
  [][ /\ \A k \in 1..Len(urls) : urls'[k].clicks >= urls[k].clicks
      /\ \A k \in (Len(urls) + 1)..Len(urls') : urls'[k].clicks = 0 ]_vars

====
